---- MODULE Spec2Model ----
(***************************************************************************)
(* Model of scripts/find_unused.py: find_unused_files(src_dir) and the     *)
(* __main__ block that prints its result.                                  *)
(*                                                                         *)
(* A path is a sequence of segments (the pieces between '/'); a segment is *)
(* a sequence of tokens (atomic substrings such as "c", ".ts", ".d"), so   *)
(* that appending an extension, endswith() and splitting into directory    *)
(* and basename are computed and not assumed.  An absolute path lists its  *)
(* segments from '/'.  file_map (lines 9, 20-21) is written and never     *)
(* read, and is left out.  The two loops over all_files visit its members  *)
(* in an order the language leaves open, so each visits any member not yet *)
(* visited.                                                                *)
(***************************************************************************)
EXTENDS Integers, Sequences, FiniteSets, TLC

\* ------------------------------------------------------------------ bounds
\* Largest number of files present in the scanned tree.
MaxFiles == 3

\* ------------------------------------------------------------- vocabulary
Dot == <<".">>
DotDot == <<"..">>

\* The scan root of the __main__ block.
src_dir == <<<<"Users">>, <<"sarahsahl">>, <<"Desktop">>, <<"relevnt-fresh">>, <<"src">>>>

\* Hardcoded entry points (basenames).
entry_types == {<<"main", ".tsx">>, <<"vite-env", ".d", ".ts">>, <<"App", ".tsx">>}

\* The header line printed before the report.
Header == <<<<"Potential unused files:">>>>

\* Files that may be present under the scan root (paths relative to it).
F_main == <<<<"main", ".tsx">>>>
F_env == <<<<"vite-env", ".d", ".ts">>>>
F_c == <<<<"c", ".ts">>>>
F_aApp == <<<<"a">>, <<"App", ".tsx">>>>
F_ab == <<<<"a">>, <<"b", ".ts">>>>
F_ac == <<<<"a">>, <<"c", ".ts">>>>
F_acx == <<<<"a">>, <<"c", ".tsx">>>>
F_acIndex == <<<<"a">>, <<"c">>, <<"index", ".tsx">>>>

Tree == {F_main, F_env, F_c, F_aApp, F_ab, F_ac, F_acx, F_acIndex}

\* Quoted string literals that may occur in a file's text.
L_c == <<Dot, <<"c">>>>                      \* './c'
L_upc == <<DotDot, <<"c">>>>                 \* '../c'
L_cts == <<Dot, <<"c", ".ts">>>>             \* './c.ts'
L_envd == <<Dot, <<"vite-env", ".d">>>>      \* './vite-env.d'
L_pkg == <<<<"pkg">>>>                       \* 'pkg'

\* What a file may hold: bytes that decode as UTF-8 (utf8) and then the
\* quoted strings of its text in order, or bytes that do not decode.
Contents ==
  { [utf8 |-> TRUE, strings |-> <<>>],
    [utf8 |-> TRUE, strings |-> <<L_c>>],
    [utf8 |-> TRUE, strings |-> <<L_pkg, L_upc, L_cts, L_envd>>],
    [utf8 |-> FALSE, strings |-> <<>>] }

\* Code points of the tokens, for str comparison and the regex's '\.'.
Chars(tok) ==
  CASE tok = "." -> <<46>>
    [] tok = ".." -> <<46, 46>>
    [] tok = ".ts" -> <<46, 116, 115>>
    [] tok = ".tsx" -> <<46, 116, 115, 120>>
    [] tok = ".d" -> <<46, 100>>
    [] tok = "a" -> <<97>>
    [] tok = "b" -> <<98>>
    [] tok = "c" -> <<99>>
    [] tok = "main" -> <<109, 97, 105, 110>>
    [] tok = "App" -> <<65, 112, 112>>
    [] tok = "index" -> <<105, 110, 100, 101, 120>>
    [] tok = "vite-env" -> <<118, 105, 116, 101, 45, 101, 110, 118>>
    [] tok = "pkg" -> <<112, 107, 103>>

RECURSIVE Flatten(_)
Flatten(seg) == IF seg = <<>> THEN <<>> ELSE Chars(Head(seg)) \o Flatten(Tail(seg))

\* The str of a path: its segments joined by '/' (code point 47).
RECURSIVE PathStr(_)
PathStr(p) ==
  IF p = <<>> THEN <<>>
  ELSE IF Len(p) = 1 THEN Flatten(p[1])
  ELSE Flatten(p[1]) \o <<47>> \o PathStr(Tail(p))

\* Python's str '<': code-point lexicographic, a proper prefix is smaller.
RECURSIVE StrLess(_, _)
StrLess(s, t) ==
  IF t = <<>> THEN FALSE
  ELSE IF s = <<>> THEN TRUE
  ELSE IF Head(s) # Head(t) THEN Head(s) < Head(t)
  ELSE StrLess(Tail(s), Tail(t))

PathLess(p, q) == StrLess(PathStr(p), PathStr(q))

\* ------------------------------------------------------------ os.path
\* os.path.join(a, b) for a relative b.
Join(a, b) == a \o b

DirName(p) == SubSeq(p, 1, Len(p) - 1)

BaseName(p) == p[Len(p)]

\* os.path.normpath of an absolute path: '.' dropped, '..' removes the
\* segment before it, and '..' at '/' is dropped.
RECURSIVE Collapse(_, _)
Collapse(p, acc) ==
  IF p = <<>> THEN acc
  ELSE IF Head(p) = Dot THEN Collapse(Tail(p), acc)
  ELSE IF Head(p) = DotDot
    THEN Collapse(Tail(p), IF acc = <<>> THEN <<>> ELSE SubSeq(acc, 1, Len(acc) - 1))
  ELSE Collapse(Tail(p), Append(acc, Head(p)))

NormPath(p) == Collapse(p, <<>>)

RECURSIVE CommonLen(_, _)
CommonLen(p, q) ==
  IF p = <<>> \/ q = <<>> THEN 0
  ELSE IF Head(p) = Head(q) THEN 1 + CommonLen(Tail(p), Tail(q))
  ELSE 0

\* os.path.relpath(path, start) of two normalised absolute paths.
RelPath(path, start) ==
  LET i == CommonLen(path, start)
      rel == [k \in 1..(Len(start) - i) |-> DotDot] \o SubSeq(path, i + 1, Len(path))
  IN IF rel = <<>> THEN <<Dot>> ELSE rel

\* path + ext: the extension is appended to the last segment ('/' + ext
\* names a file in the root directory).
AddExt(p, ext) ==
  IF p = <<>> THEN <<<<ext>>>>
  ELSE [p EXCEPT ![Len(p)] = Append(@, ext)]

\* str.endswith on a file name.
EndsWith(name, suffix) ==
  /\ Len(name) >= Len(suffix)
  /\ SubSeq(name, Len(name) - Len(suffix) + 1, Len(name)) = suffix

\* ------------------------------------------------------------ program
VARIABLES
  rootExists,        \* whether src_dir is a directory
  disk,              \* the files under src_dir (relative paths)
  content,           \* what each of them holds
  pc,                \* position in the run
  walked,            \* the files os.walk has yielded
  all_files,
  referenced_files,
  seeded,            \* the files the seeding loop has visited
  scanned,           \* the files the scanning loop has opened
  f,                 \* the file being scanned
  imports,           \* its import literals not yet resolved
  unused,            \* the value returned to __main__
  stdout             \* the lines printed

vars == <<rootExists, disk, content, pc, walked, all_files, referenced_files,
          seeded, scanned, f, imports, unused, stdout>>

input == <<rootExists, disk, content>>

Init ==
  /\ rootExists \in BOOLEAN
  /\ disk \in {d \in SUBSET Tree : Cardinality(d) <= MaxFiles}
  /\ rootExists = FALSE => disk = {}
  /\ content \in [disk -> Contents]
  /\ pc = "walk"
  /\ walked = {}
  /\ all_files = {}
  /\ referenced_files = {}
  /\ seeded = {}
  /\ scanned = {}
  /\ f = <<>>
  /\ imports = <<>>
  /\ unused = <<>>
  /\ stdout = <<>>

\* The filter without its exclusion of '.d.ts'.
EligibleAnyTs(file) == EndsWith(file, <<".ts">>) \/ EndsWith(file, <<".tsx">>)

\* The filter of the enumeration on a file name.
Eligible(file) ==
  /\ EndsWith(file, <<".ts">>) \/ EndsWith(file, <<".tsx">>)
  /\ ~EndsWith(file, <<".d", ".ts">>)

\* One file yielded by os.walk, in whatever order the directory lists it.
Walk(entry) ==
  /\ pc = "walk"
  /\ rootExists
  /\ entry \in disk \ walked
  /\ LET root == Join(src_dir, DirName(entry))
         file == BaseName(entry)
         full_path == Join(root, <<file>>)
         rel_path == RelPath(full_path, src_dir)
     IN all_files' = IF Eligible(file) THEN all_files \cup {rel_path} ELSE all_files
  /\ walked' = walked \cup {entry}
  /\ UNCHANGED <<input, pc, referenced_files, seeded, scanned, f, imports, unused, stdout>>

\* os.walk is exhausted; on a missing src_dir it yields nothing (its
\* onerror defaults to None, the listing error is swallowed).
EndWalk ==
  /\ pc = "walk"
  /\ ~rootExists \/ walked = disk
  /\ pc' = "seed"
  /\ UNCHANGED <<input, walked, all_files, referenced_files, seeded, scanned, f,
                 imports, unused, stdout>>

\* The entry-point test on the whole relative path.
IsEntryWholePath(g) == \E e \in entry_types : g = <<e>>

\* The entry-point test: on the basename.
IsEntry(g) == BaseName(g) \in entry_types

\* One iteration of the seeding loop; a set is iterated in arbitrary order.
Seed(g) ==
  /\ pc = "seed"
  /\ g \in all_files \ seeded
  /\ referenced_files' = IF IsEntry(g) THEN referenced_files \cup {g} ELSE referenced_files
  /\ seeded' = seeded \cup {g}
  /\ UNCHANGED <<input, pc, walked, all_files, scanned, f, imports, unused, stdout>>

EndSeed ==
  /\ pc = "seed"
  /\ seeded = all_files
  /\ pc' = "scan"
  /\ UNCHANGED <<input, walked, all_files, referenced_files, seeded, scanned, f,
                 imports, unused, stdout>>

\* A read that drops the bytes it cannot decode.
DecodesLenient(g) == TRUE

\* open(..., encoding='utf-8').read() succeeds.
Decodes(g) == content[g].utf8

\* re.findall(r"['\"](\..*?)['\"]", content): the quoted strings whose
\* first character is '.'.
FindAll(strings) == SelectSeq(strings, LAMBDA s : Head(Chars(Head(Head(s)))) = 46)

\* One iteration of the scanning loop up to the regex; an undecodable file
\* raises out of find_unused_files and out of __main__.
Open(g) ==
  /\ pc = "scan"
  /\ g \in all_files \ scanned
  /\ scanned' = scanned \cup {g}
  /\ f' = g
  /\ IF Decodes(g)
       THEN /\ imports' = FindAll(content[g].strings)
            /\ pc' = IF imports' = <<>> THEN "scan" ELSE "resolve"
       ELSE /\ imports' = <<>>
            /\ pc' = "aborted"
  /\ UNCHANGED <<input, walked, all_files, referenced_files, seeded, unused, stdout>>

\* Resolution against the scan root.
CurrentDirIsRoot(g) == src_dir

\* The directory of the importing file.
CurrentDir(g) == DirName(Join(src_dir, g))

\* Candidates that also try the resolved path as it is.
CandidatesWithSelf(resolved_path) ==
  << AddExt(resolved_path, ".ts"),
     AddExt(resolved_path, ".tsx"),
     Join(resolved_path, <<<<"index", ".ts">>>>),
     Join(resolved_path, <<<<"index", ".tsx">>>>),
     resolved_path >>

\* The list of candidates of a resolved path.
Candidates(resolved_path) ==
  << AddExt(resolved_path, ".ts"),
     AddExt(resolved_path, ".tsx"),
     Join(resolved_path, <<<<"index", ".ts">>>>),
     Join(resolved_path, <<<<"index", ".tsx">>>>) >>

\* The candidates of literal imp in file g, relative to src_dir.
RelCands(g, imp) ==
  LET current_dir == CurrentDir(g)
      resolved_path == NormPath(Join(current_dir, imp))
      candidates == Candidates(resolved_path)
  IN [k \in 1..Len(candidates) |-> RelPath(candidates[k], src_dir)]

\* Marking without the membership test.
MarkedAnyCandidate(g, imp) ==
  {RelCands(g, imp)[k] : k \in 1..Len(RelCands(g, imp))}

\* Marking that stops at the first candidate found.
MarkedFirstOnly(g, imp) ==
  LET rc == RelCands(g, imp)
      hits == {k \in 1..Len(rc) : rc[k] \in all_files}
  IN {rc[k] : k \in {h \in hits : \A h2 \in hits : h <= h2}}

\* Marking only from a file already referenced.
MarkedIfReached(g, imp) ==
  IF g \in referenced_files
    THEN LET rc == RelCands(g, imp) IN {rc[k] : k \in {h \in 1..Len(rc) : rc[h] \in all_files}}
    ELSE {}

\* What the loop over the candidates adds to referenced_files.
Marked(g, imp) ==
  LET rc == RelCands(g, imp)
  IN {rc[k] : k \in {h \in 1..Len(rc) : rc[h] \in all_files}}

\* One iteration of the loop over a file's import literals.
Resolve ==
  /\ pc = "resolve"
  /\ referenced_files' = referenced_files \cup Marked(f, Head(imports))
  /\ imports' = Tail(imports)
  /\ pc' = IF imports' = <<>> THEN "scan" ELSE "resolve"
  /\ UNCHANGED <<input, walked, all_files, seeded, scanned, f, unused, stdout>>

\* sorted(list(S)) of a set of paths.
RECURSIVE Sorted(_)
Sorted(S) ==
  IF S = {} THEN <<>>
  ELSE LET m == CHOOSE x \in S : \A y \in S \ {x} : PathLess(x, y)
       IN <<m>> \o Sorted(S \ {m})

\* The scanning loop is over: the set difference, sorted, is returned.
Return ==
  /\ pc = "scan"
  /\ scanned = all_files
  /\ unused' = Sorted(all_files \ referenced_files)
  /\ pc' = "returned"
  /\ UNCHANGED <<input, walked, all_files, referenced_files, seeded, scanned, f,
                 imports, stdout>>

\* __main__: the header, then one path per line.
PrintReport ==
  /\ pc = "returned"
  /\ stdout' = <<Header>> \o unused
  /\ pc' = "done"
  /\ UNCHANGED <<input, walked, all_files, referenced_files, seeded, scanned, f,
                 imports, unused>>

Next ==
  \/ \E entry \in Tree : Walk(entry)
  \/ EndWalk
  \/ \E g \in Tree : Seed(g)
  \/ EndSeed
  \/ \E g \in Tree : Open(g)
  \/ Resolve
  \/ Return
  \/ PrintReport

Spec == Init /\ [][Next]_vars

\* ------------------------------------------------------------ vocabulary of the claims
\* These restate the specification's terms on paths relative to the scan
\* root, without the absolute paths the program goes through.

IsDeclaration(p) ==
  /\ Len(BaseName(p)) >= 2
  /\ BaseName(p)[Len(BaseName(p)) - 1] = ".d"
  /\ BaseName(p)[Len(BaseName(p))] = ".ts"

\* The File Set of a tree.
SourceFiles ==
  {e \in disk : BaseName(e)[Len(BaseName(e))] \in {".ts", ".tsx"} /\ ~IsDeclaration(e)}

\* The import literals of a file: its quoted strings that begin with a
\* relative-path prefix.
ImportLiterals(g) ==
  {content[g].strings[k] : k \in {h \in 1..Len(content[g].strings) :
                                    Head(content[g].strings[h]) \in {Dot, DotDot}}}

\* '.' and '..' collapsed on a path relative to the scan root; a path that
\* leaves the root keeps its leading '..' segments.
RECURSIVE RelNorm(_, _)
RelNorm(p, acc) ==
  IF p = <<>> THEN acc
  ELSE IF Head(p) = Dot THEN RelNorm(Tail(p), acc)
  ELSE IF Head(p) = DotDot
    THEN RelNorm(Tail(p), IF acc = <<>> \/ acc[Len(acc)] = DotDot
                            THEN Append(acc, DotDot)
                            ELSE SubSeq(acc, 1, Len(acc) - 1))
  ELSE RelNorm(Tail(p), Append(acc, Head(p)))

\* The four paths a literal of file g stands for.
ImportTargets(g, lit) ==
  LET P == RelNorm(DirName(g) \o lit, <<>>)
  IN IF P = <<>>
       THEN {<<<<"index", ".ts">>>>, <<<<"index", ".tsx">>>>}
       ELSE { AddExt(P, ".ts"), AddExt(P, ".tsx"),
              P \o <<<<"index", ".ts">>>>, P \o <<<<"index", ".tsx">>>> }

\* File g contains an import literal that resolves to file t.
Imports(g, t) == \E lit \in ImportLiterals(g) : t \in ImportTargets(g, lit)

Completed == pc \in {"returned", "done"}

AfterSeeding == pc \notin {"walk", "seed"}

UnusedSet == {unused[k] : k \in 1..Len(unused)}

Increasing(s) == \A i, j \in 1..Len(s) : i < j => PathLess(s[i], s[j])

\* ------------------------------------------------------------ C1
\* C1: at completion every file of the File Set that no OTHER file imports
\* and whose basename is not an entry-point basename is in the Unused Set
\* (a literal inside the file itself does not count).
C1_NotImportedByOthersIsUnused ==
  Completed =>
    \A t \in all_files :
      ( /\ \A g \in all_files \ {t} : ~Imports(g, t)
        /\ BaseName(t) \notin entry_types )
      => t \in UnusedSet

\* ------------------------------------------------------------ C2
\* C2 as stated: every file of the tree whose basename is main.tsx,
\* vite-env.d.ts or App.tsx is in the Reference Set after seeding and never
\* in the Unused Set.
C2_EveryEntryBasenameReferenced ==
  AfterSeeding =>
    \A e \in disk :
      BaseName(e) \in {<<"main", ".tsx">>, <<"vite-env", ".d", ".ts">>, <<"App", ".tsx">>}
      => e \in referenced_files /\ e \notin UnusedSet

\* C2 amended: every file of the tree whose basename is main.tsx or App.tsx,
\* in any directory, is in the Reference Set after seeding and never in the
\* Unused Set; a file named vite-env.d.ts is never in the Unused Set either,
\* but it is not in the Reference Set.
C2_SourceEntryReferenced ==
  AfterSeeding =>
    \A e \in disk :
      /\ BaseName(e) \in {<<"main", ".tsx">>, <<"App", ".tsx">>}
           => e \in referenced_files /\ e \notin UnusedSet
      /\ BaseName(e) = <<"vite-env", ".d", ".ts">>
           => e \notin referenced_files /\ e \notin UnusedSet

C2_Witness ==
  /\ pc = "done"
  /\ disk = {F_aApp, F_env, F_ab}
  /\ \A g \in disk : content[g].strings = <<>>
  /\ referenced_files = {F_aApp}
  /\ unused = <<F_ab>>

\* ------------------------------------------------------------ C3
\* The files reachable from the entry points through import literals of
\* other reachable files.
RECURSIVE Reach(_)
Reach(R) ==
  LET R2 == R \cup {t \in all_files : \E g \in R \ {t} : Imports(g, t)}
  IN IF R2 = R THEN R ELSE Reach(R2)

Reachable == Reach({t \in all_files : BaseName(t) \in entry_types})

\* C3 as stated, by the consequence it draws: at completion a file that is
\* not an entry point and whose importers all end up in the Unused Set is
\* itself in the Unused Set (it is not reachable, so not in the Reference
\* Set).
C3_ReferencedOnlyIfReachable ==
  Completed =>
    \A t \in all_files :
      ( /\ BaseName(t) \notin entry_types
        /\ \A g \in all_files : Imports(g, t) => g \in UnusedSet )
      => t \in UnusedSet /\ t \notin referenced_files /\ t \notin Reachable

\* C3 amended: at completion a file is in the Reference Set only if it was
\* seeded as an entry point or an import literal resolving to it occurs in
\* some file of the File Set, referenced or not, the file itself included;
\* consequently a file with any importer in the File Set is not reported as
\* unused, even when all its importers are.
C3_ReferencedOnlyIfSeededOrImported ==
  Completed =>
    /\ \A t \in referenced_files :
         BaseName(t) \in entry_types \/ \E g \in all_files : Imports(g, t)
    /\ \A t \in all_files :
         (\E g \in all_files : Imports(g, t)) => t \notin UnusedSet

C3_Witness ==
  /\ pc = "done"
  /\ disk = {F_ab, F_ac}
  /\ content[F_ab].strings = <<L_c>>
  /\ content[F_ac].strings = <<>>
  /\ unused = <<F_ab>>
  /\ referenced_files = {F_ac}

\* ------------------------------------------------------------ C4
\* C4: resolving the literal './c' found in a file of directory D marks D/c.ts
\* and D/c/index.tsx when they are in the File Set, and marks no file named
\* c.ts of another directory.
C4_ResolvedAgainstImporterDir ==
  [][ (pc = "resolve" /\ Head(imports) = L_c) =>
        LET D == DirName(f) IN
          /\ D \o <<<<"c", ".ts">>>> \in all_files
               => D \o <<<<"c", ".ts">>>> \in referenced_files'
          /\ D \o <<<<"c">>, <<"index", ".tsx">>>> \in all_files
               => D \o <<<<"c">>, <<"index", ".tsx">>>> \in referenced_files'
          /\ \A t \in all_files :
               (BaseName(t) = <<"c", ".ts">> /\ DirName(t) # D /\ t \notin referenced_files)
               => t \notin referenced_files' ]_vars

C4_Witness ==
  /\ pc = "done"
  /\ all_files = {F_ab, F_ac, F_c}
  /\ content[F_ab].strings = <<L_c>>
  /\ content[F_ac].strings = <<>>
  /\ content[F_c].strings = <<>>
  /\ F_ac \in referenced_files
  /\ unused = <<F_ab, F_c>>

\* ------------------------------------------------------------ C5
\* C5: when a file of the File Set does not decode, the run never returns
\* a result and never prints; it stops at the first such file it opens,
\* however many files were scanned before.
C5_UndecodableAborts ==
  /\ (\E g \in SourceFiles : ~content[g].utf8)
       => pc \notin {"returned", "done"} /\ unused = <<>> /\ stdout = <<>>
  /\ \A g \in scanned : ~content[g].utf8 => pc = "aborted" /\ f = g
  /\ pc = "aborted" => ~content[f].utf8 /\ stdout = <<>>

C5_Witness ==
  /\ pc = "aborted"
  /\ Cardinality(scanned) = 3
  /\ referenced_files # {}
  /\ stdout = <<>>

\* ------------------------------------------------------------ C6
\* C6: with a missing scan root the run does not complete and prints
\* nothing.
C6_MissingRootIsFatal ==
  ~rootExists => pc # "done" /\ stdout = <<>>

\* ------------------------------------------------------------ C7
\* The Reference Set as a function of the tree alone.
ExpectedReferenced ==
  {t \in SourceFiles :
     BaseName(t) \in entry_types \/ \E g \in SourceFiles : Imports(g, t)}

\* C7: whatever the order of enumeration, seeding and scanning, a run on a
\* tree whose files all decode ends with the same Reference Set and the
\* same sequence, and a run on any other tree never completes.
C7_OutputDependsOnTreeOnly ==
  /\ Completed =>
       /\ \A g \in SourceFiles : content[g].utf8
       /\ all_files = SourceFiles
       /\ referenced_files = ExpectedReferenced
       /\ UnusedSet = SourceFiles \ ExpectedReferenced
       /\ Len(unused) = Cardinality(SourceFiles \ ExpectedReferenced)
       /\ Increasing(unused)
  /\ pc = "done" => stdout = <<Header>> \o unused
  /\ pc = "aborted" => \E g \in SourceFiles : ~content[g].utf8

C7_Witness ==
  /\ pc = "done"
  /\ disk = {F_aApp, F_ac, F_c}
  /\ content[F_aApp].strings = <<L_c>>
  /\ content[F_c].strings = <<L_c>>
  /\ referenced_files = {F_aApp, F_ac, F_c}
  /\ stdout = <<Header>>

\* ------------------------------------------------------------ C8
\* C8: no declaration file is ever in the File Set, the Reference Set or the
\* Unused Set.
C8_DeclarationFilesExcluded ==
  \A t \in all_files \cup referenced_files \cup UnusedSet : ~IsDeclaration(t)

C8_Witness ==
  /\ pc = "done"
  /\ F_env \in disk
  /\ F_main \in scanned
  /\ L_envd \in ImportLiterals(F_main)
  /\ F_env \in ImportTargets(F_main, L_envd)
  /\ F_env \notin all_files

\* ------------------------------------------------------------ C9
\* C9: the Reference Set is always a subset of the File Set and never
\* shrinks; at completion the returned sequence lists exactly File Set minus
\* Reference Set in strictly increasing order.
C9_ReferenceSetMonotoneAndPartition ==
  /\ [](/\ referenced_files \subseteq all_files
        /\ Completed => /\ UnusedSet = all_files \ referenced_files
                        /\ Increasing(unused)
                        /\ Len(unused) = Cardinality(UnusedSet)
                        /\ \A t \in all_files : (t \in referenced_files) # (t \in UnusedSet))
  /\ [][referenced_files \subseteq referenced_files']_vars

C9_Witness ==
  /\ pc = "done"
  /\ disk = {F_main, F_ab, F_c}
  /\ L_upc \in ImportLiterals(F_main)
  /\ referenced_files = {F_main}
  /\ unused = <<F_ab, F_c>>

\* ------------------------------------------------------------ C10
\* C10: resolving one literal adds exactly those of its four targets that
\* are in the File Set, all of them; it adds nothing and raises nothing
\* when none is; and './c.ts' does not mark the c.ts beside the importer.
C10_ExactlyTheFourCandidates ==
  [][ pc = "resolve" =>
        LET T == ImportTargets(f, Head(imports)) \cap all_files IN
          /\ referenced_files' = referenced_files \cup T
          /\ T = {} => referenced_files' = referenced_files /\ pc' # "aborted"
          /\ (Head(imports) = L_cts /\ DirName(f) \o <<<<"c", ".ts">>>> \notin referenced_files)
               => DirName(f) \o <<<<"c", ".ts">>>> \notin referenced_files' ]_vars

C10_Witness ==
  /\ pc = "done"
  /\ disk = {F_ab, F_ac, F_acx}
  /\ content[F_ab].strings = <<L_c>>
  /\ content[F_ac].strings = <<>>
  /\ content[F_acx].strings = <<>>
  /\ referenced_files = {F_ac, F_acx}

====
